---- MODULE Spec2Model ----
(***************************************************************************)
(* Model of the story-parsing and document-synthesis pipeline of           *)
(* prd_generator.py: UserStoryParser (text -> UserStory records) and       *)
(* PRDGenerator (records + project info -> eight PRDSection records).      *)
(* Text is kept as text: every string of the program is a TLA+ string and  *)
(* the regular expressions of story_patterns are matched character by      *)
(* character.                                                              *)
(***************************************************************************)
EXTENDS Integers, Sequences, FiniteSets, TLC

\* ------------------------------------------------------------------------
\* Characters and the str methods the code uses
\* ------------------------------------------------------------------------

Ch(s, i) == SubSeq(s, i, i)

UpperAlpha == "ABCDEFGHIJKLMNOPQRSTUVWXYZ"

LowerAlpha == "abcdefghijklmnopqrstuvwxyz"

DigitChars == "0123456789"

CharSet(s) == {Ch(s, k) : k \in 1..Len(s)}

LowerMap ==
    [c \in CharSet(UpperAlpha) |->
        Ch(LowerAlpha, CHOOSE k \in 1..26 : Ch(UpperAlpha, k) = c)]

UpperMap ==
    [c \in CharSet(LowerAlpha) |->
        Ch(UpperAlpha, CHOOSE k \in 1..26 : Ch(LowerAlpha, k) = c)]

ToLower(c) == IF c \in DOMAIN LowerMap THEN LowerMap[c] ELSE c

ToUpper(c) == IF c \in DOMAIN UpperMap THEN UpperMap[c] ELSE c

\* str.strip() and the regex class \s
IsSpace(c) == c \in {" ", "\t", "\n", "\r"}

\* the regex class \d
IsDigit(c) == c \in CharSet(DigitChars)

\* the regex class \w
IsWord(c) == c \in CharSet(UpperAlpha) \cup CharSet(LowerAlpha) \cup CharSet(DigitChars) \cup {"_"}

\* the least element of a set of positions, 0 when it is empty
Least(S) == IF S = {} THEN 0 ELSE CHOOSE i \in S : \A j \in S : i <= j

\* a literal of a pattern compiled with re.IGNORECASE matches s at position i
EqIC(s, i, lit) ==
    /\ i >= 1
    /\ i + Len(lit) - 1 <= Len(s)
    /\ \A k \in 1..Len(lit) : ToLower(Ch(s, i + k - 1)) = ToLower(Ch(lit, k))

\* str.strip()
strip(s) ==
    LET n == Len(s)
        a == Least({i \in 1..n : ~IsSpace(Ch(s, i))})
        z == Least({k \in 1..n : ~IsSpace(Ch(s, n + 1 - k))})
    IN  IF a = 0 THEN "" ELSE SubSeq(s, a, n + 1 - z)

\* str.split('\n')
RECURSIVE split(_)
split(s) ==
    LET p == Least({i \in 1..Len(s) : Ch(s, i) = "\n"})
    IN  IF p = 0 THEN <<s>>
        ELSE <<SubSeq(s, 1, p - 1)>> \o split(SubSeq(s, p + 1, Len(s)))

\* '\n'.join(lines)
RECURSIVE join(_)
join(lines) ==
    IF Len(lines) = 0 THEN ""
    ELSE IF Len(lines) = 1 THEN lines[1]
    ELSE lines[1] \o "\n" \o join(Tail(lines))

\* str.lower()
RECURSIVE lower(_)
lower(s) == IF Len(s) = 0 THEN "" ELSE ToLower(Ch(s, 1)) \o lower(SubSeq(s, 2, Len(s)))

\* str.capitalize(): first character upper-cased, the rest lower-cased
capitalize(s) ==
    IF Len(s) = 0 THEN "" ELSE ToUpper(Ch(s, 1)) \o lower(SubSeq(s, 2, Len(s)))

\* CPython refuses int(str) beyond this many digits (sys.int_info.default_max_str_digits)
INT_MAX_STR_DIGITS == 4300

\* int(str) raises ValueError
int_raises(d) == Len(d) > INT_MAX_STR_DIGITS \/ Len(d) = 0 \/ \E k \in 1..Len(d) : ~IsDigit(Ch(d, k))

DigitVal(c) == (CHOOSE k \in 1..10 : Ch(DigitChars, k) = c) - 1

\* int(str) of a decimal digit string
RECURSIVE int(_)
int(d) ==
    IF Len(d) = 0 THEN 0
    ELSE 10 * int(SubSeq(d, 1, Len(d) - 1)) + DigitVal(Ch(d, Len(d)))

\* Optional[...] values: None is the empty tuple, a value v is <<v>>
None == <<>>

Some(v) == <<v>>

\* ------------------------------------------------------------------------
\* UserStoryParser.story_patterns, each with the flags of its call site
\* ------------------------------------------------------------------------

\* the table UserStoryParser.__init__ stores in self.story_patterns
StoryPatterns ==
    [gherkin    |-> "As a (.+?), I want (.+?) so that (.+?)(?:\\.|$)",
     simple     |-> "(.+?)(?:\\n|$)",
     acceptance |-> "(?:Given|When|Then|And)\\s+(.+?)(?:\\n|$)",
     criteria   |-> "(?:Acceptance Criteria?:|AC:)\\s*\\n?((?:.+\\n?)*)",
     priority   |-> "(?:Priority:|Prio:)\\s*(\\w+)",
     points     |-> "(?:Story Points?:|Points?:|SP:)\\s*(\\d+)"]

\* "$" without re.MULTILINE: at the end, or before a final newline
AtEnd(text, p) == p = Len(text) + 1 \/ (p = Len(text) /\ Ch(text, p) = "\n")

\* "." without re.DOTALL: the position after the last character a run of
\* "." starting at p can take (the next newline, or the end of the text)
LineEnd(text, p) ==
    LET q == Least({i \in p..Len(text) : Ch(text, i) = "\n"})
    IN  IF q = 0 THEN Len(text) + 1 ELSE q

\* variant of gherkin_search: the pattern compiled with re.MULTILINE, "$"
\* matches at the end of every line
gherkin_search_multiline(text) ==
    LET n == Len(text)
        BenefitOk(e) == (e < n /\ Ch(text, e + 1) \in {".", "\n"}) \/ e = n
        BenefitEnd(p) == Least({e \in p..(LineEnd(text, p) - 1) : BenefitOk(e)})
        ActionOk(e) == EqIC(text, e + 1, " so that ") /\ BenefitEnd(e + 10) # 0
        ActionEnd(p) == Least({e \in p..(LineEnd(text, p) - 1) : ActionOk(e)})
        RoleOk(e) == EqIC(text, e + 1, ", I want ") /\ ActionEnd(e + 10) # 0
        RoleEnd(p) == Least({e \in p..(LineEnd(text, p) - 1) : RoleOk(e)})
        StartOk(i) == EqIC(text, i, "As a ") /\ RoleEnd(i + 5) # 0
        i0 == Least({i \in 1..n : StartOk(i)})
        re == RoleEnd(i0 + 5)
        ae == ActionEnd(re + 10)
        be == BenefitEnd(ae + 10)
    IN  IF i0 = 0 THEN None
        ELSE Some([persona |-> SubSeq(text, i0 + 5, re),
                   action  |-> SubSeq(text, re + 10, ae),
                   benefit |-> SubSeq(text, ae + 10, be)])

\* re.search(story_patterns['gherkin'], text, re.IGNORECASE):
\* r'As a (.+?), I want (.+?) so that (.+?)(?:\.|$)'
\* None, or the three groups of the leftmost match, each capture the
\* shortest that lets the rest of the pattern match
gherkin_search(text) ==
    LET n == Len(text)
        BenefitOk(e) == (e < n /\ Ch(text, e + 1) = ".") \/ AtEnd(text, e + 1)
        BenefitEnd(p) == Least({e \in p..(LineEnd(text, p) - 1) : BenefitOk(e)})
        ActionOk(e) == EqIC(text, e + 1, " so that ") /\ BenefitEnd(e + 10) # 0
        ActionEnd(p) == Least({e \in p..(LineEnd(text, p) - 1) : ActionOk(e)})
        RoleOk(e) == EqIC(text, e + 1, ", I want ") /\ ActionEnd(e + 10) # 0
        RoleEnd(p) == Least({e \in p..(LineEnd(text, p) - 1) : RoleOk(e)})
        StartOk(i) == EqIC(text, i, "As a ") /\ RoleEnd(i + 5) # 0
        i0 == Least({i \in 1..n : StartOk(i)})
        re == RoleEnd(i0 + 5)
        ae == ActionEnd(re + 10)
        be == BenefitEnd(ae + 10)
    IN  IF i0 = 0 THEN None
        ELSE Some([persona |-> SubSeq(text, i0 + 5, re),
                   action  |-> SubSeq(text, re + 10, ae),
                   benefit |-> SubSeq(text, ae + 10, be)])

\* position after the \s* that follows a label ending at position e
SkipSpace(text, e) ==
    LET p == Least({i \in (e + 1)..Len(text) : ~IsSpace(Ch(text, i))})
    IN  IF p = 0 THEN Len(text) + 1 ELSE p

\* re.search(story_patterns['criteria'], text, re.IGNORECASE | re.DOTALL):
\* r'(?:Acceptance Criteria?:|AC:)\s*\n?((?:.+\n?)*)'
\* None, or group 1 of the leftmost match: with DOTALL ".+" runs to the
\* end of the text, so the group is everything after the label and the
\* white space behind it
criteria_search(text) ==
    LET n == Len(text)
        LabelLen(i) ==
            IF EqIC(text, i, "Acceptance Criteria:") THEN 20
            ELSE IF EqIC(text, i, "Acceptance Criteri:") THEN 19
            ELSE IF EqIC(text, i, "AC:") THEN 3
            ELSE 0
        i0 == Least({i \in 1..n : LabelLen(i) # 0})
    IN  IF i0 = 0 THEN None
        ELSE Some(SubSeq(text, SkipSpace(text, i0 + LabelLen(i0) - 1), n))

\* [ac.strip() for ac in criteria_text.split('\n') if ac.strip()]
criteria_lines(criteria_text) ==
    LET stripped == [k \in 1..Len(split(criteria_text)) |-> strip(split(criteria_text)[k])]
        NonEmpty(ac) == ac # ""
    IN  SelectSeq(stripped, NonEmpty)

\* one match of story_patterns['acceptance'] starting at position i:
\* r'(?:Given|When|Then|And)\s+(.+?)(?:\n|$)' with re.IGNORECASE.
\* [from, to] of group 1 and the position after the match, or None
acceptance_match_at(text, i) ==
    LET n == Len(text)
        kw == IF EqIC(text, i, "Given") THEN 5
              ELSE IF EqIC(text, i, "When") THEN 4
              ELSE IF EqIC(text, i, "Then") THEN 4
              ELSE IF EqIC(text, i, "And") THEN 3
              ELSE 0
        k == i + kw - 1
        \* \s+ is greedy and gives characters back until ".+?" can start:
        \* group 1 starts at the last position p0 that has white space only
        \* between the keyword and itself and does not hold a newline
        after == SkipSpace(text, k)
        hi == IF after > n THEN n ELSE after
        back == Least({q \in (k + 2)..hi : Ch(text, hi + k + 2 - q) # "\n"})
        p0 == IF back = 0 THEN 0 ELSE hi + k + 2 - back
        nl == Least({j \in (p0 + 1)..n : Ch(text, j) = "\n"})
    IN  IF kw = 0 \/ p0 = 0 THEN None
        ELSE IF nl = 0 THEN Some([from |-> p0, to |-> n, next |-> n + 1])
        ELSE Some([from |-> p0, to |-> nl - 1, next |-> nl + 1])

\* re.findall(story_patterns['acceptance'], text, re.IGNORECASE) from pos on
RECURSIVE acceptance_findall_from(_, _)
acceptance_findall_from(text, pos) ==
    LET i0 == Least({i \in pos..Len(text) : acceptance_match_at(text, i) # None})
        m == acceptance_match_at(text, i0)[1]
    IN  IF i0 = 0 THEN <<>>
        ELSE <<SubSeq(text, m.from, m.to)>> \o acceptance_findall_from(text, m.next)

acceptance_findall(text) == acceptance_findall_from(text, 1)

\* \w+ at p: the maximal run of word characters starting there
word_run(text, p) ==
    LET q == Least({i \in p..Len(text) : ~IsWord(Ch(text, i))})
    IN  IF q = 0 THEN SubSeq(text, p, Len(text)) ELSE SubSeq(text, p, q - 1)

\* \d+ at p: the maximal run of digits starting there
digit_run(text, p) ==
    LET q == Least({i \in p..Len(text) : ~IsDigit(Ch(text, i))})
    IN  IF q = 0 THEN SubSeq(text, p, Len(text)) ELSE SubSeq(text, p, q - 1)

\* re.search(story_patterns['priority'], text, re.IGNORECASE):
\* r'(?:Priority:|Prio:)\s*(\w+)'; None or group 1 of the leftmost match
priority_search(text) ==
    LET LabelLen(i) ==
            IF EqIC(text, i, "Priority:") THEN 9
            ELSE IF EqIC(text, i, "Prio:") THEN 5
            ELSE 0
        Word(i) == word_run(text, SkipSpace(text, i + LabelLen(i) - 1))
        i0 == Least({i \in 1..Len(text) : LabelLen(i) # 0 /\ Word(i) # ""})
    IN  IF i0 = 0 THEN None ELSE Some(Word(i0))

\* re.search(story_patterns['points'], text, re.IGNORECASE):
\* r'(?:Story Points?:|Points?:|SP:)\s*(\d+)'; None or group 1
points_search(text) ==
    LET LabelLen(i) ==
            IF EqIC(text, i, "Story Points:") THEN 13
            ELSE IF EqIC(text, i, "Story Point:") THEN 12
            ELSE IF EqIC(text, i, "Points:") THEN 7
            ELSE IF EqIC(text, i, "Point:") THEN 6
            ELSE IF EqIC(text, i, "SP:") THEN 3
            ELSE 0
        Number(i) == digit_run(text, SkipSpace(text, i + LabelLen(i) - 1))
        i0 == Least({i \in 1..Len(text) : LabelLen(i) # 0 /\ Number(i) # ""})
    IN  IF i0 = 0 THEN None ELSE Some(Number(i0))

\* ------------------------------------------------------------------------
\* UserStoryParser
\* ------------------------------------------------------------------------

\* the dataclass UserStory
UserStory(title, description, acceptance_criteria, priority, story_points) ==
    [title |-> title, description |-> description,
     acceptance_criteria |-> acceptance_criteria,
     priority |-> priority, story_points |-> story_points]

\* variant of stripped_lines: line 58 left out, lines are taken as they are
stripped_lines_unstripped(text) == split(strip(text))

\* the lines the loop of _split_into_stories sees: line = line.strip()
stripped_lines(text) ==
    LET lines == split(strip(text))
    IN  [k \in 1..Len(lines) |-> strip(lines[k])]

\* if current_story: stories.append('\n'.join(current_story)), at a blank line
flush(current_story, stories) ==
    IF current_story # <<>> THEN Append(stories, join(current_story)) ELSE stories

\* variant of final_flush: lines 66-67 left out, an open block is lost
final_flush_dropped(current_story, stories) == stories

\* the same after the loop, for the block that ends the text
final_flush(current_story, stories) ==
    IF current_story # <<>> THEN Append(stories, join(current_story)) ELSE stories

\* the loop of _split_into_stories over lines[from..], with its two locals
RECURSIVE split_loop(_, _, _, _)
split_loop(lines, from, current_story, stories) ==
    IF from > Len(lines) THEN final_flush(current_story, stories)
    ELSE IF lines[from] = ""
         THEN split_loop(lines, from + 1, <<>>, flush(current_story, stories))
         ELSE split_loop(lines, from + 1, Append(current_story, lines[from]), stories)

split_into_stories(text) == split_loop(stripped_lines(text), 1, <<>>, <<>>)

\* the exception _parse_single_story raises on text, "" when it returns
parse_single_story_raises(text) ==
    LET points_match == points_search(text)
    IN  IF points_match # None /\ int_raises(points_match[1]) THEN "ValueError" ELSE ""

\* variant of parsed_title: the Gherkin title is taken from the wrong group
parsed_title_from_persona(text) ==
    LET gherkin_match == gherkin_search(text)
        lines == split(text)
    IN  IF gherkin_match # None THEN "User Story: " \o gherkin_match[1].persona
        ELSE IF Len(lines) = 0 THEN ""
        ELSE IF Len(lines[1]) > 100 THEN SubSeq(lines[1], 1, 100) \o "..."
        ELSE lines[1]

\* variant of parsed_title: line 86 without its conditional, the first line
\* is the title whatever its length
parsed_title_untruncated(text) ==
    LET gherkin_match == gherkin_search(text)
        lines == split(text)
    IN  IF gherkin_match # None THEN "User Story: " \o gherkin_match[1].action
        ELSE IF Len(lines) = 0 THEN ""
        ELSE lines[1]

\* the local title of _parse_single_story
parsed_title(text) ==
    LET gherkin_match == gherkin_search(text)
        lines == split(text)
    IN  IF gherkin_match # None THEN "User Story: " \o gherkin_match[1].action
        ELSE IF Len(lines) = 0 THEN ""
        ELSE IF Len(lines[1]) > 100 THEN SubSeq(lines[1], 1, 100) \o "..."
        ELSE lines[1]

\* variant of parsed_description: the sentence is closed with a period
parsed_description_with_period(text) ==
    LET gherkin_match == gherkin_search(text)
        lines == split(text)
    IN  IF gherkin_match # None
        THEN "As a " \o gherkin_match[1].persona \o ", I want " \o gherkin_match[1].action
             \o " so that " \o gherkin_match[1].benefit \o "."
        ELSE IF Len(lines) = 0 THEN ""
        ELSE text

\* the local description of _parse_single_story
parsed_description(text) ==
    LET gherkin_match == gherkin_search(text)
        lines == split(text)
    IN  IF gherkin_match # None
        THEN "As a " \o gherkin_match[1].persona \o ", I want " \o gherkin_match[1].action
             \o " so that " \o gherkin_match[1].benefit
        ELSE IF Len(lines) = 0 THEN ""
        ELSE text

\* variant of parsed_acceptance_criteria: an inline criterion the labelled
\* block gave already is left out
parsed_acceptance_criteria_deduplicated(text) ==
    LET criteria_match == criteria_search(text)
        labelled == IF criteria_match # None THEN criteria_lines(criteria_match[1]) ELSE <<>>
        IsNew(ac) == \A k \in 1..Len(labelled) : labelled[k] # ac
    IN  labelled \o SelectSeq(acceptance_findall(text), IsNew)

\* variant of parsed_acceptance_criteria: the inline criteria come first
parsed_acceptance_criteria_inline_first(text) ==
    LET criteria_match == criteria_search(text)
        labelled == IF criteria_match # None THEN criteria_lines(criteria_match[1]) ELSE <<>>
    IN  acceptance_findall(text) \o labelled

\* the local acceptance_criteria of _parse_single_story
parsed_acceptance_criteria(text) ==
    LET criteria_match == criteria_search(text)
        labelled == IF criteria_match # None THEN criteria_lines(criteria_match[1]) ELSE <<>>
    IN  labelled \o acceptance_findall(text)

\* variant of parsed_priority: line 99 without .capitalize(), the word is
\* kept as written
parsed_priority_as_written(text) ==
    LET priority_match == priority_search(text)
    IN  IF priority_match # None THEN priority_match[1] ELSE "Medium"

\* the local priority of _parse_single_story
parsed_priority(text) ==
    LET priority_match == priority_search(text)
    IN  IF priority_match # None THEN capitalize(priority_match[1]) ELSE "Medium"

\* variant of parsed_story_points: story_points starts as 0 instead of None
parsed_story_points_zero(text) ==
    LET points_match == points_search(text)
    IN  IF points_match # None THEN Some(int(points_match[1])) ELSE Some(0)

\* variant of parsed_story_points: the number is read from the last digit
\* run of the block instead of the one after the first label
parsed_story_points_last(text) ==
    LET points_match == points_search(text)
        starts == {i \in 1..Len(text) :
                      IsDigit(Ch(text, i)) /\ (i = 1 \/ ~IsDigit(Ch(text, i - 1)))}
        last == CHOOSE i \in starts : \A k \in starts : k <= i
    IN  IF points_match # None THEN Some(int(digit_run(text, last))) ELSE None

\* the local story_points of _parse_single_story
parsed_story_points(text) ==
    LET points_match == points_search(text)
    IN  IF points_match # None THEN Some(int(points_match[1])) ELSE None

\* variant of parse_single_story: line 105 left out, a record is built
\* whatever title and description are
parse_single_story_unguarded(text) ==
    Some(UserStory(parsed_title(text), parsed_description(text),
                   parsed_acceptance_criteria(text),
                   parsed_priority(text), parsed_story_points(text)))

\* _parse_single_story when it returns: None or a UserStory
parse_single_story(text) ==
    LET title == parsed_title(text)
        description == parsed_description(text)
    IN  IF title # "" /\ description # ""
        THEN Some(UserStory(title, description, parsed_acceptance_criteria(text),
                            parsed_priority(text), parsed_story_points(text)))
        ELSE None

\* the loop of parse_user_stories over story_blocks[from..]
RECURSIVE parse_loop(_, _, _)
parse_loop(story_blocks, from, stories) ==
    IF from > Len(story_blocks) THEN stories
    ELSE parse_loop(story_blocks, from + 1, stories \o parse_single_story(story_blocks[from]))

\* parse_user_stories when no block raises
parse_user_stories(text) == parse_loop(split_into_stories(text), 1, <<>>)

\* ------------------------------------------------------------------------
\* PRDGenerator
\* ------------------------------------------------------------------------

\* the mapping PRDGenerator.__init__ stores in self.template, built on the
\* day built
Template(built) ==
    [project_info |-> [title |-> "", author |-> "", date |-> built,
                       version |-> "1.0", status |-> "Draft"],
     sections |-> <<"Executive Summary", "Product Overview", "Market Assessment",
                    "User Stories and Requirements", "Functional Requirements",
                    "Technical Requirements", "User Experience Requirements",
                    "Assumptions and Constraints", "Success Metrics",
                    "Timeline and Milestones", "Appendices">>]

\* variant of get: the default is left out, as in dict.get(key)
get_without_default(project_info, key, default) ==
    IF key \in DOMAIN project_info THEN project_info[key] ELSE "None"

\* dict.get(key, default)
get(project_info, key, default) ==
    IF key \in DOMAIN project_info THEN project_info[key] ELSE default

\* the format specification {i:03d}
Fmt03(i) ==
    LET d == ToString(i)
    IN  IF Len(d) = 1 THEN "00" \o d ELSE IF Len(d) = 2 THEN "0" \o d ELSE d

\* the dataclass PRDSection
PRDSection(title, content) == [title |-> title, content |-> content]

\* variant of generate_project_info: the date line always shows the day of
\* the call
generate_project_info_dated_today(project_info, today) ==
    strip("\nProject Title: " \o get(project_info, "title", "Untitled Project")
          \o "\nAuthor: " \o get(project_info, "author", "Unknown")
          \o "\nDate: " \o today
          \o "\nVersion: " \o get(project_info, "version", "1.0")
          \o "\nStatus: " \o get(project_info, "status", "Draft")
          \o "\nTarget Release: " \o get(project_info, "target_release", "TBD")
          \o "\n        ")

\* today is datetime.datetime.now().strftime('%Y-%m-%d') at the time of the call
generate_project_info(project_info, today) ==
    strip("\nProject Title: " \o get(project_info, "title", "Untitled Project")
          \o "\nAuthor: " \o get(project_info, "author", "Unknown")
          \o "\nDate: " \o get(project_info, "date", today)
          \o "\nVersion: " \o get(project_info, "version", "1.0")
          \o "\nStatus: " \o get(project_info, "status", "Draft")
          \o "\nTarget Release: " \o get(project_info, "target_release", "TBD")
          \o "\n        ")

\* variant of high_priority_count: the priority is compared as written,
\* without .lower()
high_priority_count_exact(user_stories) ==
    Cardinality({k \in 1..Len(user_stories) : user_stories[k].priority = "high"})

\* len([s for s in user_stories if s.priority.lower() == 'high'])
high_priority_count(user_stories) ==
    Cardinality({k \in 1..Len(user_stories) : lower(user_stories[k].priority) = "high"})

generate_executive_summary(user_stories, project_info) ==
    LET total_stories == Len(user_stories)
        high_priority == high_priority_count(user_stories)
    IN  strip("\nThis Product Requirements Document outlines the requirements for "
          \o get(project_info, "title", "the project") \o ".\n"
          \o "\nThe product addresses key user needs through " \o ToString(total_stories)
          \o " user stories, with " \o ToString(high_priority)
          \o " high-priority features identified. This document serves as the primary reference for development teams, stakeholders, and project managers throughout the product development lifecycle.\n"
          \o "\nKey objectives:"
          \o "\n- Deliver user-centered features based on identified user stories"
          \o "\n- Ensure clear requirements and acceptance criteria"
          \o "\n- Provide measurable success metrics"
          \o "\n- Establish development timeline and constraints"
          \o "\n        ")

generate_product_overview(project_info) ==
    strip("\nProduct Vision: " \o get(project_info, "vision", "To be defined based on user requirements") \o "\n"
          \o "\nTarget Users: Based on the user stories, the primary users include various personas who require the functionality described in the requirements.\n"
          \o "\nCore Value Proposition: The product will deliver value by addressing specific user needs as outlined in the user stories section.\n"
          \o "\nScope: This PRD covers the features and functionality derived from the provided user stories and their associated acceptance criteria."
          \o "\n        ")

\* the loop body of _generate_user_stories_section for enumerate index i
user_story_entry(i, story) ==
    "US" \o Fmt03(i) \o ": " \o story.title \o "\n"
    \o "Description: " \o story.description \o "\n"
    \o "Priority: " \o story.priority \o "\n"
    \o (IF story.story_points # None /\ story.story_points[1] # 0
        THEN "Story Points: " \o ToString(story.story_points[1]) \o "\n" ELSE "")
    \o "\n"

\* the loop body of _generate_functional_requirements for enumerate index i
functional_entry(i, story) ==
    "FR" \o Fmt03(i) \o ": " \o story.title \o "\n"
    \o "The system shall implement functionality to: " \o story.description \o "\n"
    \o "Priority Level: " \o story.priority \o "\n\n"

\* variant of criteria_entries: enumerate(story.acceptance_criteria) without
\* its start value 1, the first criterion is numbered 0
RECURSIVE criteria_entries_from_zero(_, _, _)
criteria_entries_from_zero(i, criteria, j) ==
    IF j > Len(criteria) THEN ""
    ELSE "  AC" \o Fmt03(i) \o "." \o ToString(j - 1) \o ": " \o criteria[j] \o "\n"
         \o criteria_entries_from_zero(i, criteria, j + 1)

\* the inner loop of _generate_acceptance_criteria over criteria[j..]
RECURSIVE criteria_entries(_, _, _)
criteria_entries(i, criteria, j) ==
    IF j > Len(criteria) THEN ""
    ELSE "  AC" \o Fmt03(i) \o "." \o ToString(j) \o ": " \o criteria[j] \o "\n"
         \o criteria_entries(i, criteria, j + 1)

\* variant of acceptance_entry: line 220 left out, the header is written for
\* a story without criteria too
acceptance_entry_unguarded(i, story) ==
    "US" \o Fmt03(i) \o " - " \o story.title \o ":\n"
    \o criteria_entries(i, story.acceptance_criteria, 1) \o "\n"

\* the loop body of _generate_acceptance_criteria for enumerate index i
acceptance_entry(i, story) ==
    IF story.acceptance_criteria # <<>>
    THEN "US" \o Fmt03(i) \o " - " \o story.title \o ":\n"
         \o criteria_entries(i, story.acceptance_criteria, 1) \o "\n"
    ELSE ""

\* content += entry, for each entry in order
RECURSIVE accumulate(_)
accumulate(entries) ==
    IF Len(entries) = 0 THEN "" ELSE entries[1] \o accumulate(Tail(entries))

generate_user_stories_section(user_stories) ==
    strip("The following user stories define the core requirements for this product:\n\n"
          \o accumulate([i \in 1..Len(user_stories) |-> user_story_entry(i, user_stories[i])]))

generate_functional_requirements(user_stories) ==
    strip("Based on the user stories, the following functional requirements have been identified:\n\n"
          \o accumulate([i \in 1..Len(user_stories) |-> functional_entry(i, user_stories[i])]))

\* variant of generate_acceptance_criteria: only the stories with criteria
\* are enumerated
generate_acceptance_criteria_renumbered(user_stories) ==
    LET HasCriteria(story) == story.acceptance_criteria # <<>>
        with_criteria == SelectSeq(user_stories, HasCriteria)
    IN  strip("Acceptance criteria for each user story:\n\n"
              \o accumulate([i \in 1..Len(with_criteria) |-> acceptance_entry(i, with_criteria[i])]))

generate_acceptance_criteria(user_stories) ==
    strip("Acceptance criteria for each user story:\n\n"
          \o accumulate([i \in 1..Len(user_stories) |-> acceptance_entry(i, user_stories[i])]))

generate_assumptions ==
    strip("\nThe following assumptions are made for this product development:\n"
          \o "\n1. Technical infrastructure and development resources are available"
          \o "\n2. User stories represent validated user needs"
          \o "\n3. Acceptance criteria are complete and testable"
          \o "\n4. Dependencies with external systems are manageable"
          \o "\n5. Timeline estimates are based on standard development practices\n"
          \o "\nThese assumptions should be validated and updated as the project progresses."
          \o "\n        ")

generate_success_metrics ==
    strip("\nSuccess will be measured using the following metrics:\n"
          \o "\n1. Feature Completion Rate: Percentage of user stories successfully implemented"
          \o "\n2. Acceptance Criteria Pass Rate: Percentage of acceptance criteria met"
          \o "\n3. User Satisfaction: To be measured through user feedback and testing"
          \o "\n4. Performance Metrics: Response time, uptime, and system reliability"
          \o "\n5. Adoption Metrics: User engagement and feature utilization\n"
          \o "\nSpecific targets and measurement methods should be defined during the planning phase."
          \o "\n        ")

\* variant of generate_prd: a section whose loop added nothing is left out
generate_prd_skipping_empty(user_stories, project_info, today) ==
    LET NotBare(section) ==
            section.content \notin {"The following user stories define the core requirements for this product:",
                                    "Based on the user stories, the following functional requirements have been identified:",
                                    "Acceptance criteria for each user story:"}
    IN  SelectSeq(
            << PRDSection("Project Information", generate_project_info(project_info, today)),
               PRDSection("Executive Summary", generate_executive_summary(user_stories, project_info)),
               PRDSection("Product Overview", generate_product_overview(project_info)),
               PRDSection("User Stories and Requirements", generate_user_stories_section(user_stories)),
               PRDSection("Functional Requirements", generate_functional_requirements(user_stories)),
               PRDSection("Acceptance Criteria", generate_acceptance_criteria(user_stories)),
               PRDSection("Assumptions and Constraints", generate_assumptions),
               PRDSection("Success Metrics", generate_success_metrics) >>,
            NotBare)

\* PRDGenerator.generate_prd: the eight appends, in order
generate_prd(user_stories, project_info, today) ==
    << PRDSection("Project Information", generate_project_info(project_info, today)),
       PRDSection("Executive Summary", generate_executive_summary(user_stories, project_info)),
       PRDSection("Product Overview", generate_product_overview(project_info)),
       PRDSection("User Stories and Requirements", generate_user_stories_section(user_stories)),
       PRDSection("Functional Requirements", generate_functional_requirements(user_stories)),
       PRDSection("Acceptance Criteria", generate_acceptance_criteria(user_stories)),
       PRDSection("Assumptions and Constraints", generate_assumptions),
       PRDSection("Success Metrics", generate_success_metrics) >>

\* ------------------------------------------------------------------------
\* Inputs
\* ------------------------------------------------------------------------

\* most story blocks in one input text
MaxBlocks == 2

\* most extra blank lines in one input text
MaxPad == 1

GherkinExample == <<"As a tester, I want to run suites so that bugs are caught early.">>

CriteriaExample == <<"Acceptance Criteria:", "- A", "- B", "Given X">>

AccountStory ==
    <<"As a project manager, I want to create user accounts so that team members can access the project management system.",
      "Priority: HIGH",
      "Story Points: 5">>

LoginFix == <<"  Fix the login page", "prio: low", "SP: 0  ">>

UnterminatedGherkin == <<"As a dev, I want logs so that I can debug", "Priority: high">>

PlainLine == <<"Export report from the command line">>

DotNetStory == <<"As a dev, I want a linter so that .NET code is checked.">>

\* story blocks as the lines typed, none of them blank
SampleBlocks ==
    {GherkinExample, CriteriaExample, AccountStory, LoginFix,
     UnterminatedGherkin, PlainLine, DotNetStory}

\* a first line of more than 100 characters that is no Gherkin sentence
LongLine ==
    <<"The nightly export job must write every open requirement with its owner, priority and status to the shared drive",
      "Priority: low">>

\* a Gherkin sentence whose action has more than 100 characters
LongWish ==
    <<"As a planner, I want to see every open requirement with its owner, priority, status, story points and acceptance criteria on one page so that I can plan.">>

\* a labelled criteria block followed by two other labels
ExportFix == <<"Fix the export", "AC:", "- A", "Priority: High", "Story Points: 3">>

\* a criterion that both sources give
ResetPassword == <<"Reset the password", "AC:", "the mail is sent", "Then the mail is sent">>

\* a Gherkin sentence followed by Given/When/Then lines and two labels
ReportStory ==
    <<"As a user, I want reports so that I can plan.",
      "Given a request", "When I wait", "Then a report is sent",
      "Priority: low", "SP: 2">>

\* the same with a remark after the sentence
OnDemandStory ==
    <<"As a user, I want reports so that I can plan. Runs on demand",
      "Given a request", "Then a report is sent">>

\* priority and story-points labels that nothing usable follows, before
\* labels that a word or a number follows
TriagedStory ==
    <<"Update the docs", "Priority: ?", "Prio: URGENT", "Priority: low",
      "SP: x", "Points: 07", "SP: 3">>

\* a Gherkin sentence without a period, followed by one with a period
TwoSentences ==
    <<"As a dev, I want logs so that I can debug",
      "As a user, I want traces so that I can follow a request.">>

\* story blocks that are tried alone
SingleBlocks ==
    {LongLine, LongWish, ExportFix, ResetPassword, ReportStory, OnDemandStory,
     TriagedStory, TwoSentences}

\* "1" repeated k times
RECURSIVE Ones(_)
Ones(k) ==
    IF k = 0 THEN ""
    ELSE IF k % 2 = 0 THEN LET h == Ones(k \div 2) IN h \o h
    ELSE "1" \o Ones(k - 1)

\* a story-points label followed by one digit more than int() accepts
HugePoints == <<"SP: " \o Ones(INT_MAX_STR_DIGITS + 1)>>

BlockSeqs == UNION {[1..n -> SampleBlocks] : n \in 0..MaxBlocks}

\* the blocks that are also tried with extra blank lines around them
PaddedBlocks == {GherkinExample, CriteriaExample, LoginFix}

PaddedSeqs == UNION {[1..n -> PaddedBlocks] : n \in 0..MaxBlocks}

\* extra blank lines before the first block, between two blocks and after
\* the last one; blank is what an extra blank line holds
Paddings ==
    {p \in [lead : 0..MaxPad, between : 0..MaxPad, trail : 0..MaxPad, blank : {"", " \t"}] :
        /\ p.lead + p.between + p.trail <= MaxPad
        /\ (p.lead + p.between + p.trail = 0) => p.blank = ""}

MinimalPadding == [lead |-> 0, between |-> 0, trail |-> 0, blank |-> ""]

Blanks(k, blank) == [i \in 1..k |-> blank]

RECURSIVE SeparatedLines(_, _)
SeparatedLines(blocks, pad) ==
    IF Len(blocks) = 0 THEN <<>>
    ELSE IF Len(blocks) = 1 THEN blocks[1]
    ELSE blocks[1] \o <<"">> \o Blanks(pad.between, pad.blank) \o SeparatedLines(Tail(blocks), pad)

\* the input text made of the blocks, one blank line between two blocks,
\* and the extra blank lines of pad
Compose(blocks, pad) ==
    join(Blanks(pad.lead, pad.blank) \o SeparatedLines(blocks, pad) \o Blanks(pad.trail, pad.blank))

InfoKeys == {"title", "author", "date", "version", "status", "target_release", "vision"}

FullInfo ==
    [k \in InfoKeys |->
        CASE k = "title" -> "Demo Project Management System"
          [] k = "author" -> "PRD Generator Demo"
          [] k = "date" -> "2024-01-15"
          [] k = "version" -> "2.1"
          [] k = "status" -> "Approved"
          [] k = "target_release" -> "2024-Q1"
          [] k = "vision" -> "One place for every requirement"]

Restrict(f, D) == [k \in D |-> f[k]]

EmptyInfo == Restrict(FullInfo, {})

\* the mapping main() of demo_simple.py passes
DemoInfo == Restrict(FullInfo, {"title", "author", "target_release", "version"})

ProjectInfos ==
    {EmptyInfo, DemoInfo, FullInfo} \cup {Restrict(FullInfo, {k}) : k \in InfoKeys}

\* the days a call can run on
Dates == {"2026-11-01", "2026-11-02"}

\* the runs: every block sequence with the project info of demo_simple.py,
\* some of them with extra blank lines, every project info with no story
\* and with one story, the other blocks alone, and two blocks with
\* story-points labels
Inputs ==
    {[blocks |-> b, padding |-> MinimalPadding, info |-> DemoInfo] : b \in BlockSeqs}
    \cup {[blocks |-> b, padding |-> p, info |-> DemoInfo] : b \in PaddedSeqs, p \in Paddings}
    \cup {[blocks |-> b, padding |-> MinimalPadding, info |-> i] :
              b \in {<<>>, <<AccountStory>>}, i \in ProjectInfos}
    \cup {[blocks |-> <<HugePoints>>, padding |-> MinimalPadding, info |-> DemoInfo]}
    \cup {[blocks |-> <<b>>, padding |-> MinimalPadding, info |-> DemoInfo] : b \in SingleBlocks}
    \cup {[blocks |-> <<LoginFix, TriagedStory>>, padding |-> MinimalPadding, info |-> DemoInfo]}

\* ------------------------------------------------------------------------
\* The pipeline of main() in demo_simple.py: parse_user_stories step by
\* step, then generate_prd
\* ------------------------------------------------------------------------

VARIABLES
    blocks_in,      \* the story blocks the input text is made of
    padding,        \* the extra blank lines put around them
    text,           \* the argument of parse_user_stories
    pc,             \* "start", "parsing", "parsed", "raised", "generated"
    story_blocks,   \* local of parse_user_stories
    block_index,    \* position of the for loop in story_blocks
    stories,        \* local and result of parse_user_stories
    error,          \* the exception that left parse_user_stories, "" if none
    project_info,   \* the mapping passed to generate_prd
    sections,       \* result of generate_prd
    story_patterns, \* the field of the UserStoryParser object
    template,       \* the field of the PRDGenerator object, None before it is built
    frames,         \* the calls made by several callers on the two objects
    app,            \* the fields and widgets of the PRDGeneratorApp object, None without one
    handlers,       \* the handlers of the app that wait in self.root.update(), innermost last
    files,          \* what export_pdf and export_text have written
    since_clear     \* history: which of parse_stories and generate_prd have set their
                    \* field since the app was built or cleared, in the order they did

vars == <<blocks_in, padding, text, pc, story_blocks, block_index, stories, error,
          project_info, sections, story_patterns, template, frames,
          app, handlers, files, since_clear>>

\* the variables of the graphical application
gui == <<app, handlers, files, since_clear>>

Init ==
    /\ \E in \in Inputs :
          /\ blocks_in = in.blocks
          /\ padding = in.padding
          /\ project_info = in.info
    /\ text = Compose(blocks_in, padding)
    /\ pc = "start"
    /\ story_blocks = <<>>
    /\ block_index = 1
    /\ stories = <<>>
    /\ error = ""
    /\ sections = <<>>
    /\ story_patterns = StoryPatterns
    /\ template = None
    /\ frames = <<>>
    /\ app = None
    /\ handlers = <<>>
    /\ files = <<>>
    /\ since_clear = <<>>

\* parse_user_stories, lines 42-43
SplitIntoStories ==
    /\ pc = "start"
    /\ story_blocks' = split_into_stories(text)
    /\ stories' = <<>>
    /\ block_index' = 1
    /\ pc' = "parsing"
    /\ UNCHANGED <<blocks_in, padding, text, error, project_info, sections>>
    /\ UNCHANGED <<story_patterns, template, frames>>
    /\ UNCHANGED gui

\* parse_user_stories, one turn of the loop of lines 45-48
ParseBlock ==
    /\ pc = "parsing"
    /\ block_index <= Len(story_blocks)
    /\ LET block == story_blocks[block_index]
           raised == parse_single_story_raises(block)
       IN  IF raised # ""
           THEN /\ error' = raised
                /\ pc' = "raised"
                /\ UNCHANGED <<stories, block_index>>
           ELSE /\ stories' = stories \o parse_single_story(block)
                /\ block_index' = block_index + 1
                /\ UNCHANGED <<error, pc>>
    /\ UNCHANGED <<blocks_in, padding, text, story_blocks, project_info, sections>>
    /\ UNCHANGED <<story_patterns, template, frames>>
    /\ UNCHANGED gui

\* parse_user_stories, line 50
ReturnStories ==
    /\ pc = "parsing"
    /\ block_index > Len(story_blocks)
    /\ pc' = "parsed"
    /\ UNCHANGED <<blocks_in, padding, text, story_blocks, block_index, stories, error,
                   project_info, sections>>
    /\ UNCHANGED <<story_patterns, template, frames>>
    /\ UNCHANGED gui

\* generator = PRDGenerator(), on any day, and then
\* generator.generate_prd(stories, project_info), on any day
GeneratePRD ==
    /\ pc = "parsed"
    /\ \E built \in Dates : template' = Template(built)
    /\ \E today \in Dates : sections' = generate_prd(stories, project_info, today)
    /\ pc' = "generated"
    /\ UNCHANGED <<blocks_in, padding, text, story_blocks, block_index, stories, error,
                   project_info, story_patterns, frames>>
    /\ UNCHANGED gui

Next == SplitIntoStories \/ ParseBlock \/ ReturnStories \/ GeneratePRD

Spec == Init /\ [][Next]_vars

\* ------------------------------------------------------------------------
\* _parse_single_story called on its own, on any text
\* ------------------------------------------------------------------------

\* every prefix of s, the empty one included
Prefixes(s) == {SubSeq(s, 1, k) : k \in 0..Len(s)}

\* the texts _parse_single_story is called on: what has been typed of a
\* story so far, and texts that start or end with an empty line
DirectTexts ==
    Prefixes(join(AccountStory)) \cup Prefixes(join(CriteriaExample))
    \cup {"\n", " ", "\n\n", "\nFix the login page", "Fix the login page\n",
          "\nAs a tester, I want to run suites so that bugs are caught early."}

DirectInit ==
    /\ text \in DirectTexts
    /\ blocks_in = <<>>
    /\ padding = MinimalPadding
    /\ project_info = EmptyInfo
    /\ pc = "start"
    /\ story_blocks = <<>>
    /\ block_index = 1
    /\ stories = <<>>
    /\ error = ""
    /\ sections = <<>>
    /\ story_patterns = StoryPatterns
    /\ template = None
    /\ frames = <<>>
    /\ app = None
    /\ handlers = <<>>
    /\ files = <<>>
    /\ since_clear = <<>>

\* story = parser._parse_single_story(text); stories holds what the call
\* returned, None or one record
ParseSingleStory ==
    /\ pc = "start"
    /\ LET raised == parse_single_story_raises(text)
       IN  IF raised # ""
           THEN /\ error' = raised
                /\ pc' = "raised"
                /\ UNCHANGED stories
           ELSE /\ stories' = parse_single_story(text)
                /\ pc' = "returned"
                /\ UNCHANGED error
    /\ UNCHANGED <<blocks_in, padding, text, story_blocks, block_index, project_info, sections>>
    /\ UNCHANGED <<story_patterns, template, frames>>
    /\ UNCHANGED gui

DirectNext == ParseSingleStory

DirectSpec == DirectInit /\ [][DirectNext]_vars

\* ------------------------------------------------------------------------
\* Several callers on one UserStoryParser and one PRDGenerator: each runs
\* parse_user_stories and then generate_prd with its own arguments, and
\* the steps of the calls interleave in any order
\* ------------------------------------------------------------------------

\* most callers at a time
MaxCallers == 2

Callers == 1..MaxCallers

\* the arguments a caller passes: a text, and a mapping without or with the
\* key 'date'
SharedArgs ==
    {<<Compose(<<GherkinExample>>, MinimalPadding), DemoInfo>>,
     <<Compose(<<LoginFix, CriteriaExample>>, MinimalPadding), FullInfo>>}

\* variant of new_list: one list made once and handed to every call, as a
\* default argument or a class attribute would be
new_list_shared(t, site, k) == <<0, site, 0>>

\* the list object the list display [] of line site makes when caller t
\* runs it for the k-th time: a new object each time
new_list(t, site, k) == <<t, site, k>>

\* the arguments and the locals of caller t before its first call
Frame(t, text_arg, project_info_arg) ==
    [text |-> text_arg, project_info |-> project_info_arg, pc |-> "start",
     story_blocks |-> <<>>, block_index |-> 1, stories |-> <<>>, error |-> "",
     today |-> "", sections |-> <<>>,
     stories_list |-> None, criteria_lists |-> <<>>, sections_list |-> None]

SharedInit ==
    /\ story_patterns = StoryPatterns
    /\ template \in {Template(built) : built \in Dates}
    /\ \E args \in [Callers -> SharedArgs] :
          frames = [t \in Callers |-> Frame(t, args[t][1], args[t][2])]
    /\ blocks_in = <<>>
    /\ padding = MinimalPadding
    /\ text = ""
    /\ project_info = EmptyInfo
    /\ pc = "start"
    /\ story_blocks = <<>>
    /\ block_index = 1
    /\ stories = <<>>
    /\ error = ""
    /\ sections = <<>>
    /\ app = None
    /\ handlers = <<>>
    /\ files = <<>>
    /\ since_clear = <<>>

\* variant of own_stories: the list is kept on the parser object, so every
\* caller appends to the list of the caller that came first
own_stories_on_parser(t) == frames[1].stories

\* the list `stories` of caller t: a local of its call of parse_user_stories
own_stories(t) == frames[t].stories

\* caller t, parse_user_stories lines 42-43
CallerSplit(t) ==
    /\ frames[t].pc = "start"
    /\ frames' = [frames EXCEPT
            ![t].story_blocks = split_into_stories(frames[t].text),
            ![t].stories = <<>>,
            ![t].stories_list = Some(new_list(t, 42, 1)),
            ![t].block_index = 1,
            ![t].pc = "parsing"]
    /\ UNCHANGED <<blocks_in, padding, text, pc, story_blocks, block_index, stories, error,
                   project_info, sections, story_patterns, template>>
    /\ UNCHANGED gui

\* caller t, one turn of the loop of lines 45-48; _parse_single_story
\* makes the list of the record at line 74
CallerParseBlock(t) ==
    /\ frames[t].pc = "parsing"
    /\ frames[t].block_index <= Len(frames[t].story_blocks)
    /\ LET block == frames[t].story_blocks[frames[t].block_index]
       IN  IF parse_single_story_raises(block) # ""
           THEN frames' = [frames EXCEPT
                    ![t].error = parse_single_story_raises(block),
                    ![t].pc = "raised"]
           ELSE frames' = [frames EXCEPT
                    ![t].stories = own_stories(t) \o parse_single_story(block),
                    ![t].criteria_lists =
                        IF parse_single_story(block) = None THEN frames[t].criteria_lists
                        ELSE Append(frames[t].criteria_lists,
                                    new_list(t, 74, frames[t].block_index)),
                    ![t].block_index = frames[t].block_index + 1]
    /\ UNCHANGED <<blocks_in, padding, text, pc, story_blocks, block_index, stories, error,
                   project_info, sections, story_patterns, template>>
    /\ UNCHANGED gui

\* caller t, line 50
CallerReturn(t) ==
    /\ frames[t].pc = "parsing"
    /\ frames[t].block_index > Len(frames[t].story_blocks)
    /\ frames' = [frames EXCEPT ![t].pc = "parsed"]
    /\ UNCHANGED <<blocks_in, padding, text, pc, story_blocks, block_index, stories, error,
                   project_info, sections, story_patterns, template>>
    /\ UNCHANGED gui

\* caller t, generate_prd(stories, project_info) on the day today
CallerGenerate(t) ==
    /\ frames[t].pc = "parsed"
    /\ \E today \in Dates :
          frames' = [frames EXCEPT
              ![t].today = today,
              ![t].sections = generate_prd(frames[t].stories, frames[t].project_info, today),
              ![t].sections_list = Some(new_list(t, 142, 1)),
              ![t].pc = "generated"]
    /\ UNCHANGED <<blocks_in, padding, text, pc, story_blocks, block_index, stories, error,
                   project_info, sections, story_patterns, template>>
    /\ UNCHANGED gui

SharedNext ==
    \E t \in Callers :
        CallerSplit(t) \/ CallerParseBlock(t) \/ CallerReturn(t) \/ CallerGenerate(t)

SharedSpec == SharedInit /\ [][SharedNext]_vars

\* ------------------------------------------------------------------------
\* generate_prd called on records the caller built itself, UserStory being
\* a public dataclass: the priority is any string, story_points any integer
\* ------------------------------------------------------------------------

\* most records in one call
MaxStories == 2

HandMadeStories ==
    {UserStory("Export the report", "Export the report as a file",
               <<"the file is written">>, "HIGH", Some(0)),
     UserStory("Import", "Import a file", <<>>, "high", None),
     UserStory("Search", "Search by title", <<"- A", "- B">>, "High", Some(3)),
     UserStory("Archive", "Archive old items", <<>>, "Highest", Some(13)),
     UserStory("Login", "Log in by mail", <<"X">>, "Medium", None)}

StoryLists == UNION {[1..n -> HandMadeStories] : n \in 0..MaxStories}

GeneratorInit ==
    /\ stories \in StoryLists
    /\ project_info \in {EmptyInfo, DemoInfo, FullInfo}
    /\ template \in {Template(built) : built \in Dates}
    /\ story_patterns = StoryPatterns
    /\ pc = "start"
    /\ blocks_in = <<>>
    /\ padding = MinimalPadding
    /\ text = ""
    /\ story_blocks = <<>>
    /\ block_index = 1
    /\ error = ""
    /\ sections = <<>>
    /\ frames = <<>>
    /\ app = None
    /\ handlers = <<>>
    /\ files = <<>>
    /\ since_clear = <<>>

\* sections = generator.generate_prd(stories, project_info), on any day
GenerateFromRecords ==
    /\ pc = "start"
    /\ \E today \in Dates : sections' = generate_prd(stories, project_info, today)
    /\ pc' = "generated"
    /\ UNCHANGED <<blocks_in, padding, text, story_blocks, block_index, stories, error,
                   project_info, story_patterns, template, frames>>
    /\ UNCHANGED gui

GeneratorNext == GenerateFromRecords

GeneratorSpec == GeneratorInit /\ [][GeneratorNext]_vars

\* ------------------------------------------------------------------------
\* PRDGeneratorApp: the handlers of the buttons, run by the Tk event loop.
\* parse_stories and generate_prd call self.root.update(), which handles
\* the events that are pending, so any handler can run inside that call
\* before the handler that made it goes on
\* ------------------------------------------------------------------------

\* most handlers waiting in self.root.update() at a time
MaxNesting == 1

\* most files the exports write in one run
MaxFiles == 1

\* str.upper()
RECURSIVE upper(_)
upper(s) == IF Len(s) = 0 THEN "" ELSE ToUpper(Ch(s, 1)) \o upper(SubSeq(s, 2, Len(s)))

\* '=' * 60
Rule60 == "============================================================"

\* the text generate_prd shows and export_text writes, section by section
RECURSIVE prd_text(_)
prd_text(prd) ==
    IF Len(prd) = 0 THEN ""
    ELSE Rule60 \o "\n" \o upper(prd[1].title) \o "\n" \o Rule60 \o "\n\n"
         \o prd[1].content \o "\n\n" \o prd_text(Tail(prd))

Paragraph(para_text, style) == [flowable |-> "Paragraph", text |-> para_text, style |-> style]

Spacer(height) == [flowable |-> "Spacer", height |-> height]

\* the flowables of one section in export_pdf: its title, then a paragraph
\* for every line that is not blank and a spacer for every blank one
section_flowables(section) ==
    LET content_lines == split(section.content)
    IN  <<Paragraph(section.title, "CustomHeading"), Spacer(12)>>
        \o [k \in 1..Len(content_lines) |->
               IF strip(content_lines[k]) # "" THEN Paragraph(content_lines[k], "Normal")
               ELSE Spacer(6)]
        \o <<Spacer(20)>>

\* the list `story` export_pdf hands to doc.build
RECURSIVE pdf_story(_)
pdf_story(prd) ==
    IF Len(prd) = 0 THEN <<>>
    ELSE section_flowables(prd[1]) \o pdf_story(Tail(prd))

\* entry.get() or default
get_or(entry, default) == IF entry # "" THEN entry ELSE default

\* the mapping generate_prd of the app builds from the three entries
app_project_info(today) ==
    [title |-> get_or(app.project_title, "Untitled Project"),
     author |-> get_or(app.project_author, "Unknown"),
     target_release |-> get_or(app.target_release, "TBD"),
     date |-> today,
     version |-> "1.0",
     status |-> "Draft"]

\* what the user types or loads into the story text box: two stories and a
\* text parse_user_stories raises on; the box is empty at the start
AppTexts ==
    {"Fix the login page\nSP: 0", "As a dev, I want logs so that I can debug.",
     HugePoints[1]}

\* the day the app runs on
AppDay == "2026-11-01"

\* the names the file dialogs return; "" stands for a dialog that is
\* cancelled and for a file that cannot be opened, which both leave the
\* app as it is
Filenames == {"", "prd"}

\* PRDGeneratorApp.__init__ and setup_ui
AppInit ==
    /\ story_patterns = StoryPatterns
    /\ template = Template(AppDay)
    /\ app = [input_text |-> "", output_text |-> "",
              project_title |-> "", project_author |-> "", target_release |-> "",
              current_stories |-> <<>>, current_prd |-> <<>>,
              status_label |-> "Ready"]
    /\ handlers = <<>>
    /\ files = <<>>
    /\ since_clear = <<>>
    /\ blocks_in = <<>>
    /\ padding = MinimalPadding
    /\ text = ""
    /\ project_info = EmptyInfo
    /\ pc = "start"
    /\ story_blocks = <<>>
    /\ block_index = 1
    /\ stories = <<>>
    /\ error = ""
    /\ sections = <<>>
    /\ frames = <<>>

\* the variables of the other specifications and the two objects' fields
pipeline == <<blocks_in, padding, text, pc, story_blocks, block_index, stories, error,
              project_info, sections, frames, story_patterns, template>>

\* since_clear with event added when it is not there yet
noted(event) ==
    IF \E k \in 1..Len(since_clear) : since_clear[k] = event THEN since_clear
    ELSE Append(since_clear, event)

\* the user edits the story text box
type_input ==
    /\ \E typed \in AppTexts : app' = [app EXCEPT !.input_text = typed]
    /\ UNCHANGED <<handlers, files, since_clear, pipeline>>

\* load_file: the dialog, then the content of the file replaces the input
load_file ==
    /\ \E filename \in Filenames, content \in AppTexts :
          IF filename # ""
          THEN app' = [app EXCEPT !.input_text = content,
                                  !.status_label = "Loaded: " \o filename]
          ELSE UNCHANGED app
    /\ UNCHANGED <<handlers, files, since_clear, pipeline>>

\* not s.strip(): s holds white space only
blank(s) == \A k \in 1..Len(s) : IsSpace(Ch(s, k))

\* parse_stories up to self.root.update(): the text is read from the box
\* here, lines 417-423
parse_stories_until_update ==
    /\ IF blank(app.input_text)
       THEN UNCHANGED <<app, handlers>>
       ELSE /\ Len(handlers) < MaxNesting
            /\ app' = [app EXCEPT !.status_label = "Parsing user stories..."]
            /\ handlers' = Append(handlers, [handler |-> "parse_stories",
                                             text |-> app.input_text])
    /\ UNCHANGED <<files, since_clear, pipeline>>

\* an exception leaves parse_user_stories(read): one of the blocks raises
parse_user_stories_raises(read) ==
    \E k \in 1..Len(split_into_stories(read)) :
        parse_single_story_raises(split_into_stories(read)[k]) # ""

\* the status parse_stories shows for the list it got, lines 427-432
parsed_status(parsed) ==
    IF parsed # <<>> THEN "Parsed " \o ToString(Len(parsed)) \o " user stories"
    ELSE "No valid user stories found"

\* parse_stories after self.root.update() has returned, lines 425-435
parse_stories_after_update ==
    /\ handlers # <<>>
    /\ handlers[Len(handlers)].handler = "parse_stories"
    /\ handlers' = SubSeq(handlers, 1, Len(handlers) - 1)
    /\ IF parse_user_stories_raises(handlers[Len(handlers)].text)
       THEN /\ app' = [app EXCEPT !.status_label = "Error parsing stories"]
            /\ UNCHANGED since_clear
       ELSE \E parsed \in {parse_user_stories(handlers[Len(handlers)].text)} :
                /\ app' = [app EXCEPT !.current_stories = parsed,
                                      !.status_label = parsed_status(parsed)]
                /\ since_clear' = IF parsed # <<>> THEN noted("parse_stories")
                                  ELSE since_clear
    /\ UNCHANGED <<files, pipeline>>

\* generate_prd of the app up to self.root.update(), lines 438-443
app_generate_prd_until_update ==
    /\ IF app.current_stories = <<>>
       THEN UNCHANGED <<app, handlers>>
       ELSE /\ Len(handlers) < MaxNesting
            /\ app' = [app EXCEPT !.status_label = "Generating PRD..."]
            /\ handlers' = Append(handlers, [handler |-> "generate_prd"])
    /\ UNCHANGED <<files, since_clear, pipeline>>

\* generate_prd of the app after self.root.update() has returned, lines
\* 445-467: current_stories is read here
app_generate_prd_after_update ==
    /\ handlers # <<>>
    /\ handlers[Len(handlers)].handler = "generate_prd"
    /\ handlers' = SubSeq(handlers, 1, Len(handlers) - 1)
    /\ \E generated \in {generate_prd(app.current_stories, app_project_info(AppDay), AppDay)} :
          app' = [app EXCEPT !.current_prd = generated,
                             !.output_text = prd_text(generated),
                             !.status_label = "PRD generated successfully"]
    /\ since_clear' = noted("generate_prd")
    /\ UNCHANGED <<files, pipeline>>

\* export_pdf: nothing without a PRD; the dialog, then doc.build(story)
export_pdf ==
    /\ \E filename \in Filenames :
          IF app.current_prd # <<>> /\ filename # ""
          THEN /\ Len(files) < MaxFiles
               /\ files' = Append(files, [name |-> filename \o ".pdf",
                                          written |-> pdf_story(app.current_prd)])
               /\ app' = [app EXCEPT !.status_label = "PDF exported: " \o filename \o ".pdf"]
          ELSE UNCHANGED <<app, files>>
    /\ UNCHANGED <<handlers, since_clear, pipeline>>

\* export_text: nothing without a PRD; the dialog, then the sections are
\* written as generate_prd shows them
export_text ==
    /\ \E filename \in Filenames :
          IF app.current_prd # <<>> /\ filename # ""
          THEN /\ Len(files) < MaxFiles
               /\ files' = Append(files, [name |-> filename \o ".txt",
                                          written |-> prd_text(app.current_prd)])
               /\ app' = [app EXCEPT !.status_label = "Text exported: " \o filename \o ".txt"]
          ELSE UNCHANGED <<app, files>>
    /\ UNCHANGED <<handlers, since_clear, pipeline>>

\* clear_input, lines 563-568
clear_input ==
    /\ app' = [app EXCEPT !.input_text = "", !.output_text = "",
                          !.current_stories = <<>>, !.current_prd = <<>>,
                          !.status_label = "Ready"]
    /\ since_clear' = <<>>
    /\ UNCHANGED <<handlers, files, pipeline>>

AppNext ==
    \/ type_input
    \/ load_file
    \/ parse_stories_until_update
    \/ parse_stories_after_update
    \/ app_generate_prd_until_update
    \/ app_generate_prd_after_update
    \/ export_pdf
    \/ export_text
    \/ clear_input

AppSpec == AppInit /\ [][AppNext]_vars

\* ------------------------------------------------------------------------
\* Properties
\* ------------------------------------------------------------------------

\* the text of a block as typed: its lines without surrounding white space,
\* joined by newlines
BlockText(block) == join([k \in 1..Len(block) |-> strip(block[k])])

StartsWith(s, prefix) ==
    Len(s) >= Len(prefix) /\ SubSeq(s, 1, Len(prefix)) = prefix

\* s up to its first period, all of s when it has none
UpToPeriod(s) ==
    LET q == Least({i \in 1..Len(s) : Ch(s, i) = "."})
    IN  IF q = 0 THEN s ELSE SubSeq(s, 1, q - 1)

\* C1: parse_user_stories never raises: no exception leaves it, whatever
\* the input text
C1_NeverRaises == error = "" /\ pc # "raised"

\* C2: segmentation idempotence: the records parsed from a text with extra
\* blank or white-space-only lines before, between and after its blocks are
\* the records parsed from the same blocks separated by one blank line
C2_SegmentationIdempotence ==
    pc = "parsed" => stories = parse_user_stories(Compose(blocks_in, MinimalPadding))

C2_Witness ==
    /\ pc = "parsed"
    /\ Len(blocks_in) = 2
    /\ padding.between + padding.lead + padding.trail > 0
    /\ padding.blank = " \t"
    /\ Len(stories) = 2

\* C3: order preservation, one record per block: a text of N blocks gives
\* N records, the i-th parsed from the i-th block, the last block included
\* when no blank line follows it
C3_OrderPreservation ==
    pc = "parsed" =>
        /\ Len(stories) = Len(blocks_in)
        /\ \A i \in 1..Len(blocks_in) :
              i <= Len(stories) => <<stories[i]>> = parse_single_story(BlockText(blocks_in[i]))

C3_Witness ==
    /\ pc = "parsed"
    /\ Len(blocks_in) = 2
    /\ blocks_in[1] # blocks_in[2]
    /\ padding.trail = 0
    /\ Len(stories) = 2

\* for every block that matches the Gherkin pattern, the record's title is
\* "User Story: " followed by the captured action
GherkinTitles ==
    /\ Len(stories) = Len(story_blocks)
    /\ \A i \in 1..Len(story_blocks) :
          (i <= Len(stories) /\ gherkin_search(story_blocks[i]) # None) =>
              stories[i].title = "User Story: " \o gherkin_search(story_blocks[i])[1].action

\* C4 as stated: the example sentence gets the title "User Story: run suites"
C4_GherkinTitleAsClaimed ==
    pc = "parsed" =>
        /\ text = GherkinExample[1] =>
              (Len(stories) = 1 /\ stories[1].title = "User Story: run suites")
        /\ GherkinTitles

\* C4 amended: the captured action is everything between ", I want " and
\* " so that ", the word "to" included: the example sentence gets the title
\* "User Story: to run suites"
C4_GherkinTitle ==
    pc = "parsed" =>
        /\ text = GherkinExample[1] =>
              (Len(stories) = 1 /\ stories[1].title = "User Story: to run suites")
        /\ GherkinTitles

C4_Witness ==
    /\ pc = "parsed"
    /\ text = GherkinExample[1]
    /\ Len(stories) = 1
    /\ stories[1].title = "User Story: to run suites"

\* what follows, in the block, the "As a <role>, I want <action> so that "
\* of the match m
AfterSoThat(block, m) ==
    LET prefix == "As a " \o m.persona \o ", I want " \o m.action \o " so that "
        p == Least({i \in 1..Len(block) : EqIC(block, i, prefix)})
    IN  SubSeq(block, p + Len(prefix), Len(block))

\* the benefit capture ".+?" takes at least one character, a period included
BenefitCapture(rest) == Ch(rest, 1) \o UpToPeriod(SubSeq(rest, 2, Len(rest)))

\* the description of every Gherkin block is the sentence rebuilt from role,
\* action and benefit; the benefit is the text after "so that" up to its
\* first period (as_claimed), or up to the first period after its first
\* character
GherkinDescriptions(as_claimed) ==
    /\ Len(stories) = Len(story_blocks)
    /\ \A i \in 1..Len(story_blocks) :
          (i <= Len(stories) /\ gherkin_search(story_blocks[i]) # None) =>
              LET m == gherkin_search(story_blocks[i])[1]
              IN  stories[i].description =
                      "As a " \o m.persona \o ", I want " \o m.action \o " so that "
                      \o (IF as_claimed THEN UpToPeriod(AfterSoThat(story_blocks[i], m))
                          ELSE BenefitCapture(AfterSoThat(story_blocks[i], m)))

GherkinExampleDescription ==
    text = GherkinExample[1] =>
        /\ Len(stories) = 1
        /\ stories[1].description = "As a tester, I want to run suites so that bugs are caught early"

\* C5 as stated: the benefit stops before the first period after "so that"
C5_GherkinDescriptionAsClaimed ==
    pc = "parsed" => (GherkinDescriptions(TRUE) /\ GherkinExampleDescription)

\* C5 amended: the benefit has at least one character and stops before the
\* first period that follows its first character (or at the end of the text)
C5_GherkinDescription ==
    pc = "parsed" => (GherkinDescriptions(FALSE) /\ GherkinExampleDescription)

C5_Witness ==
    /\ pc = "parsed"
    /\ blocks_in = <<DotNetStory>>
    /\ Len(stories) = 1
    /\ stories[1].description = "As a dev, I want a linter so that .NET code is checked"

\* C6 as stated: the criteria of the example block are "- A", "- B", "X"
C6_CriteriaExampleAsClaimed ==
    (pc = "parsed" /\ text = join(CriteriaExample)) =>
        /\ Len(stories) = 1
        /\ stories[1].acceptance_criteria = <<"- A", "- B", "X">>

\* C6 amended: the labelled block runs to the end of the story block, so the
\* line "Given X" is a criterion too and the list has four entries
C6_CriteriaExample ==
    (pc = "parsed" /\ text = join(CriteriaExample)) =>
        /\ Len(stories) = 1
        /\ stories[1].acceptance_criteria = <<"- A", "- B", "Given X", "X">>

C6_Witness ==
    /\ pc = "parsed"
    /\ text = join(CriteriaExample)
    /\ Len(stories) = 1
    /\ Len(stories[1].acceptance_criteria) = 4

HasLabel(block, labels) ==
    \E i \in 1..Len(block) : \E l \in labels : EqIC(block, i, l)

PriorityLabels == {"Priority:", "Prio:"}

PointsLabels == {"Story Points:", "Story Point:", "Points:", "Point:", "SP:"}

\* C7: a block with neither a priority label nor a story-points label gives
\* priority "Medium" and story_points None
C7_Defaults ==
    pc = "parsed" =>
        \A i \in 1..Len(story_blocks) :
            (/\ i <= Len(stories)
             /\ ~HasLabel(story_blocks[i], PriorityLabels)
             /\ ~HasLabel(story_blocks[i], PointsLabels)) =>
                (stories[i].priority = "Medium" /\ stories[i].story_points = None)

C7_Witness ==
    /\ pc = "parsed"
    /\ blocks_in = <<LoginFix, PlainLine>>
    /\ Len(stories) = 2
    /\ stories[1].priority = "Low"
    /\ stories[2].priority = "Medium"
    /\ stories[2].story_points = None

SectionTitles ==
    <<"Project Information", "Executive Summary", "Product Overview",
      "User Stories and Requirements", "Functional Requirements",
      "Acceptance Criteria", "Assumptions and Constraints", "Success Metrics">>

\* C8: generate_prd returns eight sections, titled in the fixed order, for
\* every story list and project-info mapping
C8_EightSections ==
    pc = "generated" => [i \in 1..Len(sections) |-> sections[i].title] = SectionTitles

C8_Witness ==
    /\ pc = "generated"
    /\ stories = <<>>
    /\ project_info = EmptyInfo
    /\ Len(sections) = 8

\* the line of Project Information for key shows the default when the key is
\* absent from project_info and the supplied value otherwise
FieldLine(line, label, key, default) ==
    /\ key \notin DOMAIN project_info => line = label \o default
    /\ key \in DOMAIN project_info => line = label \o project_info[key]

\* C9: generate_prd([], {}) returns eight sections whose Project Information
\* shows the five defaults; each field shows its default when its key is
\* absent and the supplied value otherwise
C9_DefaultFallback ==
    pc = "generated" =>
        LET lines == split(sections[1].content)
        IN  /\ Len(sections) = 8
            /\ sections[1].title = "Project Information"
            /\ Len(lines) = 6
            /\ FieldLine(lines[1], "Project Title: ", "title", "Untitled Project")
            /\ FieldLine(lines[2], "Author: ", "author", "Unknown")
            /\ StartsWith(lines[3], "Date: ")
            /\ FieldLine(lines[4], "Version: ", "version", "1.0")
            /\ FieldLine(lines[5], "Status: ", "status", "Draft")
            /\ FieldLine(lines[6], "Target Release: ", "target_release", "TBD")

C9_Witness ==
    /\ pc = "generated"
    /\ stories = <<>>
    /\ project_info = EmptyInfo
    /\ Len(sections) = 8
    /\ \E today \in Dates :
          sections[1].content =
              "Project Title: Untitled Project\nAuthor: Unknown\nDate: " \o today
              \o "\nVersion: 1.0\nStatus: Draft\nTarget Release: TBD"

\* the three-digit label of position i, and the label of criterion j
Label3(i) == <<"001", "002", "003", "004", "005", "006", "007", "008", "009">>[i]

Label1(j) == <<"1", "2", "3", "4", "5", "6", "7", "8", "9">>[j]

\* the lines of content that start with prefix
LinesWith(content, prefix) ==
    LET Labelled(line) == StartsWith(line, prefix)
    IN  SelectSeq(split(content), Labelled)

\* the header lines Acceptance Criteria must hold for stories[from..]
RECURSIVE ExpectedHeaders(_)
ExpectedHeaders(from) ==
    IF from > Len(stories) THEN <<>>
    ELSE (IF stories[from].acceptance_criteria # <<>>
          THEN <<"US" \o Label3(from) \o " - " \o stories[from].title \o ":">>
          ELSE <<>>)
         \o ExpectedHeaders(from + 1)

\* the criterion lines Acceptance Criteria must hold for stories[from..]
RECURSIVE ExpectedCriteria(_)
ExpectedCriteria(from) ==
    IF from > Len(stories) THEN <<>>
    ELSE [j \in 1..Len(stories[from].acceptance_criteria) |->
             "  AC" \o Label3(from) \o "." \o Label1(j) \o ": "
             \o stories[from].acceptance_criteria[j]]
         \o ExpectedCriteria(from + 1)

\* C10: numbering consistency: the story at input position i is labelled
\* US{i:03d} in User Stories and Requirements, FR{i:03d} in Functional
\* Requirements and, when it has criteria, US{i:03d} and AC{i:03d}.j in
\* Acceptance Criteria, the stories in input order in each section
C10_NumberingConsistency ==
    pc = "generated" =>
        /\ LinesWith(sections[4].content, "US") =
              [i \in 1..Len(stories) |-> "US" \o Label3(i) \o ": " \o stories[i].title]
        /\ LinesWith(sections[5].content, "FR") =
              [i \in 1..Len(stories) |-> "FR" \o Label3(i) \o ": " \o stories[i].title]
        /\ LinesWith(sections[6].content, "US") = ExpectedHeaders(1)
        /\ LinesWith(sections[6].content, "  AC") = ExpectedCriteria(1)

C10_Witness ==
    /\ pc = "generated"
    /\ Len(stories) = 2
    /\ stories[1].acceptance_criteria = <<>>
    /\ stories[2].acceptance_criteria # <<>>
    /\ LinesWith(sections[6].content, "US") = <<"US002 - " \o stories[2].title \o ":">>

\* content holds line as one of its lines
HasLine(content, line) ==
    LET lines == split(content)
    IN  \E k \in 1..Len(lines) : lines[k] = line

\* the lines among lines that start with prefix
StartingWith(lines, prefix) ==
    LET Labelled(line) == StartsWith(line, prefix)
    IN  SelectSeq(lines, Labelled)

\* C11: empty-criteria suppression: a story without acceptance criteria has
\* no header and no AC line in Acceptance Criteria, is still listed under
\* its own index in User Stories and Requirements and in Functional
\* Requirements, and the stories with criteria keep their input positions
\* as indices in Acceptance Criteria
C11_EmptyCriteriaSuppression ==
    pc = "generated" =>
        LET user_stories_lines == split(sections[4].content)
            functional_lines == split(sections[5].content)
            criteria_section_lines == split(sections[6].content)
        IN  \A i \in 1..Len(stories) :
                /\ StartingWith(user_stories_lines, "US" \o Label3(i)) =
                      <<"US" \o Label3(i) \o ": " \o stories[i].title>>
                /\ StartingWith(functional_lines, "FR" \o Label3(i)) =
                      <<"FR" \o Label3(i) \o ": " \o stories[i].title>>
                /\ stories[i].acceptance_criteria = <<>> =>
                      /\ StartingWith(criteria_section_lines, "US" \o Label3(i)) = <<>>
                      /\ StartingWith(criteria_section_lines, "  AC" \o Label3(i)) = <<>>
                /\ stories[i].acceptance_criteria # <<>> =>
                      /\ StartingWith(criteria_section_lines, "US" \o Label3(i)) =
                            <<"US" \o Label3(i) \o " - " \o stories[i].title \o ":">>
                      /\ Len(StartingWith(criteria_section_lines, "  AC" \o Label3(i))) =
                            Len(stories[i].acceptance_criteria)

C11_Witness ==
    /\ pc = "generated"
    /\ blocks_in = <<GherkinExample, CriteriaExample>>
    /\ stories[1].acceptance_criteria = <<>>
    /\ HasLine(sections[4].content, "US001: User Story: to run suites")
    /\ HasLine(sections[5].content, "FR001: User Story: to run suites")
    /\ ~HasLine(sections[6].content, "US001 - User Story: to run suites:")
    /\ HasLine(sections[6].content, "US002 - Acceptance Criteria::")
    /\ HasLine(sections[6].content, "  AC002.1: - A")

\* C12: title length bound: every record returned by parse_user_stories
\* has a title of at most 100 characters, for Gherkin and non-Gherkin
\* blocks alike
C12_TitleLengthBound ==
    pc = "parsed" => \A i \in 1..Len(stories) : Len(stories[i].title) <= 100

\* C13: record construction invariant: a record has a non-empty title and
\* a non-empty description; a text whose title or description would be
\* empty (its first line is empty and it holds no Gherkin sentence) gives
\* no record, and the call returns instead of raising
C13_RecordConstruction ==
    /\ pc = "returned" =>
          /\ \A i \in 1..Len(stories) :
                stories[i].title # "" /\ stories[i].description # ""
          /\ (split(text)[1] = "" /\ gherkin_search(text) = None) <=> stories = None
    /\ (pc # "start" /\ split(text)[1] = "" /\ gherkin_search(text) = None) =>
          (pc = "returned" /\ error = "")

C13_Witness ==
    /\ pc = "returned"
    /\ text = "\nFix the login page"
    /\ stories = None
    /\ error = ""

\* caller t has its records, and caller t has its sections
Parsed(t) == frames[t].pc \in {"parsed", "generated"}

Generated(t) == frames[t].pc = "generated"

\* C14: determinism: two calls of parse_user_stories on equal text return
\* equal records, and two calls of generate_prd with equal stories and equal
\* project-info mappings that hold the key 'date' return equal sections,
\* whatever the day of each call and whatever ran before it
C14_Determinism ==
    \A t \in DOMAIN frames : \A u \in DOMAIN frames :
        /\ (Parsed(t) /\ Parsed(u) /\ frames[t].text = frames[u].text) =>
              frames[t].stories = frames[u].stories
        /\ (/\ Generated(t) /\ Generated(u)
            /\ frames[t].stories = frames[u].stories
            /\ frames[t].project_info = frames[u].project_info
            /\ "date" \in DOMAIN frames[t].project_info) =>
              frames[t].sections = frames[u].sections

C14_Witness ==
    /\ Generated(1) /\ Generated(2)
    /\ frames[1].stories = frames[2].stories
    /\ Len(frames[1].stories) = 2
    /\ frames[1].project_info = FullInfo
    /\ frames[2].project_info = FullInfo
    /\ frames[1].today # frames[2].today
    /\ frames[1].sections = frames[2].sections

\* C15: concurrency safety: however the steps of the callers interleave on
\* the one parser and the one generator, each call returns what it returns
\* when run alone, and the pattern table is as it was built
C15_ConcurrencySafety ==
    /\ \A t \in DOMAIN frames :
          /\ Parsed(t) => frames[t].stories = parse_user_stories(frames[t].text)
          /\ Generated(t) =>
                frames[t].sections =
                    generate_prd(parse_user_stories(frames[t].text),
                                 frames[t].project_info, frames[t].today)
    /\ story_patterns = StoryPatterns

C15_Witness ==
    /\ Generated(1)
    /\ Len(frames[1].stories) = 1
    /\ frames[2].pc = "parsing"
    /\ frames[2].block_index = 2
    /\ Len(frames[2].stories) = 1
    /\ Len(frames[2].story_blocks) = 2

\* the list objects the calls of caller t have made and returned
ListsOf(t) ==
    {frames[t].stories_list[k] : k \in 1..Len(frames[t].stories_list)}
    \cup {frames[t].criteria_lists[k] : k \in 1..Len(frames[t].criteria_lists)}
    \cup {frames[t].sections_list[k] : k \in 1..Len(frames[t].sections_list)}

\* C16: no shared mutable state: no step changes a field of the parser or
\* of the generator or an argument of a call; generate_prd leaves the
\* stories, their fields and the project-info mapping as they were; what a
\* call returned is not changed by a later step of another call; and the
\* lists returned to one caller are not the lists returned to another
C16_NoSharedMutableState ==
    /\ [][/\ story_patterns' = story_patterns
          /\ template' = template
          /\ \A t \in DOMAIN frames :
                /\ frames'[t].text = frames[t].text
                /\ frames'[t].project_info = frames[t].project_info
                /\ Parsed(t) => frames'[t].stories = frames[t].stories
                /\ Generated(t) => frames'[t] = frames[t]]_vars
    /\ [](\A t \in DOMAIN frames : \A u \in DOMAIN frames :
              t # u => ListsOf(t) \cap ListsOf(u) = {})

C16_Witness ==
    /\ Generated(1) /\ Generated(2)
    /\ frames[1].stories = frames[2].stories
    /\ Len(frames[1].stories) = 2
    /\ frames[1].stories[2].acceptance_criteria # <<>>
    /\ Cardinality(ListsOf(1)) = 4
    /\ Cardinality(ListsOf(2)) = 4
    /\ ListsOf(1) \cap ListsOf(2) = {}

CriteriaLabels == {"Acceptance Criteria:", "AC:"}

\* the line starts with one of the labels, letter case aside
IsLabelLine(line, labels) == \E l \in labels : EqIC(strip(line), 1, l)

\* the first line of the block that starts with a criteria label, 0 if none
CriteriaLabelLine(block) ==
    Least({k \in 1..Len(block) : IsLabelLine(block[k], CriteriaLabels)})

\* the first line after line k that starts with any label, 0 if none
NextLabelLine(block, k) ==
    Least({j \in (k + 1)..Len(block) :
              IsLabelLine(block[j], CriteriaLabels \cup PriorityLabels \cup PointsLabels)})

\* the lines after the criteria label up to the next label line
LinesUpToNextLabel(block) ==
    LET k == CriteriaLabelLine(block)
        e == NextLabelLine(block, k)
        last == IF e = 0 THEN Len(block) ELSE e - 1
    IN  [j \in 1..(last - k) |-> strip(block[k + j])]

\* the lines after the criteria label up to the end of the block
LinesAfterLabel(block) ==
    LET k == CriteriaLabelLine(block)
    IN  IF k = 0 THEN <<>> ELSE [j \in 1..(Len(block) - k) |-> strip(block[k + j])]

IsCriterion(story, line) ==
    \E k \in 1..Len(story.acceptance_criteria) : story.acceptance_criteria[k] = line

\* C17: labelled criteria block extent: in a block with a criteria label
\* the labelled criteria are the lines after the label up to the next label
\* line; a label line or a line after it is no criterion
C17_LabelledBlockExtent ==
    pc = "parsed" =>
        \A i \in 1..Len(blocks_in) :
            (i <= Len(stories) /\ CriteriaLabelLine(blocks_in[i]) # 0) =>
                LET claimed == LinesUpToNextLabel(blocks_in[i])
                    e == NextLabelLine(blocks_in[i], CriteriaLabelLine(blocks_in[i]))
                IN  /\ Len(stories[i].acceptance_criteria) >= Len(claimed)
                    /\ SubSeq(stories[i].acceptance_criteria, 1, Len(claimed)) = claimed
                    /\ e # 0 =>
                          \A j \in e..Len(blocks_in[i]) :
                              ~IsCriterion(stories[i], strip(blocks_in[i][j]))

\* the length of the keyword the line begins with, 0 if it begins with none
KeywordLen(line) ==
    IF EqIC(line, 1, "Given") THEN 5
    ELSE IF EqIC(line, 1, "When") THEN 4
    ELSE IF EqIC(line, 1, "Then") THEN 4
    ELSE IF EqIC(line, 1, "And") THEN 3
    ELSE 0

\* the line begins with Given, When, Then or And and white space
BeginsWithKeyword(line) ==
    KeywordLen(line) # 0 /\ IsSpace(Ch(line, KeywordLen(line) + 1))

\* the remainders of the lines of the block that begin with a keyword
KeywordRemainders(block) ==
    LET stripped == [k \in 1..Len(block) |-> strip(block[k])]
        initial == SelectSeq(stripped, BeginsWithKeyword)
    IN  [k \in 1..Len(initial) |->
            strip(SubSeq(initial[k], KeywordLen(initial[k]) + 1, Len(initial[k])))]

\* C18: inline criteria only from keyword-initial lines: what the inline
\* extraction adds to a record is one criterion for each line of the block
\* that begins with Given, When, Then or And, the remainder of that line,
\* and nothing for a line that holds such a word later on
C18_InlineFromKeywordLines ==
    pc = "parsed" =>
        \A i \in 1..Len(blocks_in) :
            i <= Len(stories) =>
                LET ac == stories[i].acceptance_criteria
                    labelled == LinesAfterLabel(blocks_in[i])
                IN  /\ Len(ac) >= Len(labelled)
                    /\ SubSeq(ac, Len(labelled) + 1, Len(ac)) = KeywordRemainders(blocks_in[i])

\* C19: criteria concatenation order: the list of a record is what the
\* labelled block gives, in line order, followed by what the inline
\* extraction gives from the same block, in line order, nothing left out
\* and nothing moved
C19_ConcatenationOrder ==
    pc = "parsed" =>
        /\ \A i \in 1..Len(blocks_in) :
              i <= Len(stories) =>
                  stories[i].acceptance_criteria =
                      LinesAfterLabel(blocks_in[i]) \o acceptance_findall(BlockText(blocks_in[i]))
        /\ blocks_in = <<ResetPassword>> =>
              /\ Len(stories) = 1
              /\ stories[1].acceptance_criteria =
                    <<"the mail is sent", "Then the mail is sent", "the mail is sent">>

C19_Witness ==
    /\ pc = "parsed"
    /\ blocks_in = <<ResetPassword>>
    /\ Len(stories) = 1
    /\ Len(stories[1].acceptance_criteria) = 3
    /\ stories[1].acceptance_criteria[1] = stories[1].acceptance_criteria[3]

\* C20: Gherkin and inline criteria are independent: a block that matches
\* the Gherkin pattern has the Gherkin title and description, and the
\* remainder of each of its Given/When/Then lines is among its criteria;
\* priority and story points are taken from the whole block, Gherkin or not
C20_GherkinAndInline ==
    pc = "parsed" =>
        \A i \in 1..Len(blocks_in) :
            i <= Len(stories) =>
                LET block == BlockText(blocks_in[i])
                    m == gherkin_search(block)
                    remainders == KeywordRemainders(blocks_in[i])
                IN  /\ m # None =>
                          /\ stories[i].title = "User Story: " \o m[1].action
                          /\ stories[i].description =
                                "As a " \o m[1].persona \o ", I want " \o m[1].action
                                \o " so that " \o m[1].benefit
                          /\ \A k \in 1..Len(remainders) :
                                IsCriterion(stories[i], remainders[k])
                    /\ stories[i].priority = parsed_priority(block)
                    /\ stories[i].story_points = parsed_story_points(block)

\* the positions of block where one of labels is written, in any letter case
LabelPositions(block, labels) ==
    {p \in 1..Len(block) : \E l \in labels : EqIC(block, p, l)}

\* what is written after the label at position p of block, behind its colon
\* and any white space: the letters, digits and underscores (a word)
WordAfter(block, p) ==
    LET colon == Least({i \in p..Len(block) : Ch(block, i) = ":"})
    IN  word_run(block, SkipSpace(block, colon))

\* C21: priority extraction: when a block holds priority labels followed by
\* a word, the record's priority is the word after the first such label,
\* its first character in upper case and the others in lower case; later
\* labels are ignored
C21_PriorityExtraction ==
    pc = "parsed" =>
        \A i \in 1..Len(story_blocks) :
            LET followed == {p \in LabelPositions(story_blocks[i], PriorityLabels) :
                                WordAfter(story_blocks[i], p) # ""}
                word == WordAfter(story_blocks[i], Least(followed))
            IN  (i <= Len(stories) /\ followed # {}) =>
                    stories[i].priority =
                        ToUpper(Ch(word, 1)) \o lower(SubSeq(word, 2, Len(word)))

C21_Witness ==
    /\ pc = "parsed"
    /\ blocks_in = <<TriagedStory>>
    /\ Cardinality(LabelPositions(story_blocks[1], PriorityLabels)) = 3
    /\ Len(stories) = 1
    /\ stories[1].priority = "Urgent"

\* what is written after the label at position p of block, behind its colon
\* and any white space: the digits (a number)
NumberAfter(block, p) ==
    LET colon == Least({i \in p..Len(block) : Ch(block, i) = ":"})
    IN  digit_run(block, SkipSpace(block, colon))

\* C22: story points extraction: a record's story_points is None exactly
\* when its block has no story-points label followed by digits; otherwise
\* it is the non-negative integer written after the first such label, so
\* 0 comes from a label with 0 only
C22_StoryPointsExtraction ==
    pc = "parsed" =>
        \A i \in 1..Len(story_blocks) :
            LET followed == {p \in LabelPositions(story_blocks[i], PointsLabels) :
                                NumberAfter(story_blocks[i], p) # ""}
                number == NumberAfter(story_blocks[i], Least(followed))
            IN  i <= Len(stories) =>
                    /\ stories[i].story_points = None <=> followed = {}
                    /\ followed # {} =>
                          /\ stories[i].story_points = Some(int(number))
                          /\ stories[i].story_points[1] >= 0
                          /\ stories[i].story_points[1] = 0 =>
                                \A k \in 1..Len(number) : Ch(number, k) = "0"

C22_Witness ==
    /\ pc = "parsed"
    /\ blocks_in = <<LoginFix, TriagedStory>>
    /\ Len(stories) = 2
    /\ stories[1].story_points = Some(0)
    /\ stories[2].story_points = Some(7)

\* the block of User Stories and Requirements for the story at position i:
\* title, description and priority lines, a "Story Points:" line when
\* story_points is set, and an empty line
ExpectedStoryBlock(i, story) ==
    <<"US" \o Label3(i) \o ": " \o story.title,
      "Description: " \o story.description,
      "Priority: " \o story.priority>>
    \o (IF story.story_points # None
        THEN <<"Story Points: " \o ToString(story.story_points[1])>> ELSE <<>>)
    \o <<"">>

\* the blocks for stories[from..], one after the other
RECURSIVE ExpectedStoryBlocks(_)
ExpectedStoryBlocks(from) ==
    IF from > Len(stories) THEN <<>>
    ELSE ExpectedStoryBlock(from, stories[from]) \o ExpectedStoryBlocks(from + 1)

\* C23: story points shown iff present: in User Stories and Requirements
\* the block of a story holds title, description and priority lines, and a
\* "Story Points:" line exactly when story_points is not None, 0 included
C23_StoryPointsShownIffPresent ==
    pc = "generated" =>
        sections[4].content =
            strip(join(<<"The following user stories define the core requirements for this product:", "">>
                       \o ExpectedStoryBlocks(1)))

\* priority is "high" in some letter case
IsHigh(priority) == Len(priority) = 4 /\ EqIC(priority, 1, "high")

\* C24: Executive Summary counts: the summary states a total equal to the
\* number of input stories and a high-priority count equal to the number of
\* input stories whose priority is "high" in any letter case, so the count
\* never exceeds the total
C24_ExecutiveSummaryCounts ==
    pc = "generated" =>
        LET total == Len(stories)
            high == Cardinality({k \in 1..Len(stories) : IsHigh(stories[k].priority)})
            lines == split(sections[2].content)
        IN  /\ sections[2].title = "Executive Summary"
            /\ high <= total
            /\ Len(lines) >= 3
            /\ StartsWith(lines[3],
                   "The product addresses key user needs through " \o ToString(total)
                   \o " user stories, with " \o ToString(high)
                   \o " high-priority features identified.")

C24_Witness ==
    /\ pc = "generated"
    /\ Len(stories) = 2
    /\ stories[1].priority = "HIGH"
    /\ stories[2].priority = "Highest"
    /\ StartsWith(split(sections[2].content)[3],
           "The product addresses key user needs through 2 user stories, with 1 high-priority")

\* C25: uniform title default: when project_info has no key 'title', both
\* sections that show the project title, Project Information and Executive
\* Summary, show the default "Untitled Project"
C25_UniformTitleDefault ==
    (pc = "generated" /\ "title" \notin DOMAIN project_info) =>
        /\ split(sections[1].content)[1] = "Project Title: Untitled Project"
        /\ split(sections[2].content)[1] =
              "This Product Requirements Document outlines the requirements for Untitled Project."

\* the block of Acceptance Criteria for the story at position i: nothing
\* when it has no criteria, otherwise its header, one line per criterion
\* numbered from 1, and an empty line
ExpectedCriteriaBlock(i, story) ==
    IF story.acceptance_criteria = <<>> THEN <<>>
    ELSE <<"US" \o Label3(i) \o " - " \o story.title \o ":">>
         \o [j \in 1..Len(story.acceptance_criteria) |->
                "  AC" \o Label3(i) \o "." \o Label1(j) \o ": " \o story.acceptance_criteria[j]]
         \o <<"">>

RECURSIVE ExpectedCriteriaBlocks(_)
ExpectedCriteriaBlocks(from) ==
    IF from > Len(stories) THEN <<>>
    ELSE ExpectedCriteriaBlock(from, stories[from]) \o ExpectedCriteriaBlocks(from + 1)

\* C26: criterion numbering: in Acceptance Criteria the story at position i
\* with k >= 1 criteria has, right after its header "US{i:03d} - {title}:",
\* exactly the k lines AC{i:03d}.1 .. AC{i:03d}.k, the j-th carrying its
\* j-th criterion; j restarts at 1 for every story
C26_CriterionNumbering ==
    pc = "generated" =>
        sections[6].content =
            strip(join(<<"Acceptance criteria for each user story:", "">>
                       \o ExpectedCriteriaBlocks(1)))

C26_Witness ==
    /\ pc = "generated"
    /\ blocks_in = <<CriteriaExample, PlainLine>>
    /\ Len(stories[1].acceptance_criteria) = 4
    /\ Len(stories[2].acceptance_criteria) = 1
    /\ LinesWith(sections[6].content, "  AC") =
          <<"  AC001.1: - A", "  AC001.2: - B", "  AC001.3: Given X", "  AC001.4: X",
            "  AC002.1: line">>

\* C27: non-Gherkin fallback: for a block that does not match the Gherkin
\* pattern the title is the block's first line when it has at most 100
\* characters and otherwise its first 100 characters followed by "...",
\* and the description is the whole block, its lines in the order typed
\* and joined by single newlines
C27_NonGherkinFallback ==
    pc = "parsed" =>
        \A i \in 1..Len(blocks_in) :
            LET first == strip(blocks_in[i][1])
            IN  (i <= Len(stories) /\ gherkin_search(BlockText(blocks_in[i])) = None) =>
                    /\ Len(first) <= 100 => stories[i].title = first
                    /\ Len(first) > 100 => stories[i].title = SubSeq(first, 1, 100) \o "..."
                    /\ stories[i].description = BlockText(blocks_in[i])

C27_Witness ==
    /\ pc = "parsed"
    /\ blocks_in = <<LongLine>>
    /\ gherkin_search(story_blocks[1]) = None
    /\ Len(LongLine[1]) > 100
    /\ stories[1].title = SubSeq(LongLine[1], 1, 100) \o "..."
    /\ stories[1].description = LongLine[1] \o "\nPriority: low"

HasLineBreak(s) == \E k \in 1..Len(s) : Ch(s, k) = "\n"

\* the captures of a Gherkin block hold no line break, and the benefit is
\* followed by a period or ends the block
GherkinCaptures ==
    \A i \in 1..Len(story_blocks) :
        gherkin_search(story_blocks[i]) # None =>
            LET m == gherkin_search(story_blocks[i])[1]
                rest == AfterSoThat(story_blocks[i], m)
            IN  /\ ~HasLineBreak(m.persona)
                /\ ~HasLineBreak(m.action)
                /\ ~HasLineBreak(m.benefit)
                /\ StartsWith(rest, m.benefit)
                /\ Len(rest) = Len(m.benefit) \/ Ch(rest, Len(m.benefit) + 1) = "."

\* the first line of block is a Gherkin sentence without a period, and
\* further lines follow it
UnterminatedFirstLine(block) ==
    LET lines == split(block)
    IN  /\ Len(lines) > 1
        /\ gherkin_search(lines[1]) # None
        /\ \A k \in 1..Len(lines[1]) : Ch(lines[1], k) # "."

\* a line after the first holds a Gherkin sentence of its own
LaterSentence(block) ==
    LET lines == split(block)
    IN  \E k \in 2..Len(lines) : gherkin_search(lines[k]) # None

\* record i has the first line of its block as title and the whole block
\* as description
FirstLineRecord(i) ==
    LET first == split(story_blocks[i])[1]
    IN  /\ gherkin_search(story_blocks[i]) = None
        /\ stories[i].title =
              (IF Len(first) > 100 THEN SubSeq(first, 1, 100) \o "..." ELSE first)
        /\ stories[i].description = story_blocks[i]

C29_GuiStateConsistency ==
    app.current_prd # <<>> =>
        app.current_prd =
            generate_prd(app.current_stories, app_project_info(AppDay), AppDay)

\* C30: GUI workflow ordering: generate_prd called with an empty
\* current_stories returns at once and leaves current_prd unchanged; the
\* exports write nothing unless current_prd is non-empty; clear_input
\* empties both fields; so every export that writes comes after a
\* generate_prd that came after a parse_stories yielding a story, and
\* after clear_input none writes until both have set their field anew
C30_GuiWorkflowOrdering ==
    /\ [][(app_generate_prd_until_update /\ app.current_stories = <<>>)
          => (app'.current_prd = app.current_prd /\ handlers' = handlers)]_vars
    /\ [][((export_pdf \/ export_text) /\ app.current_prd = <<>>) => files' = files]_vars
    /\ [][clear_input => (app'.current_stories = <<>> /\ app'.current_prd = <<>>)]_vars
    /\ [][files' # files => since_clear = <<"parse_stories", "generate_prd">>]_vars

====
